---- MODULE Spec2Model ----
(***************************************************************************)
(* Template Explorer backend (src/backend/main.py): the run executor       *)
(* (execute_llm_run), the batch job engine (batch_process_task, run_batch) *)
(* and the job queries (get_job_status, get_job_result).                   *)
(*                                                                         *)
(* batch_process_task is a plain function, so the framework runs it on a   *)
(* worker thread after the response of run_batch has been sent, while the  *)
(* query handlers run on the event loop: every access to job_store is a    *)
(* step of its own.                                                        *)
(***************************************************************************)
EXTENDS Integers, Sequences, FiniteSets, TLC

VARIABLES
    datasets,    \* DATASETS_DIR: dataset id -> file
    job_store,   \* job_store: job id -> job, defined on the created jobs only
    submitted,   \* job ids that run_batch has returned to a client
    task,        \* batch_process_task per job id: position and locals
    client,      \* the query handler in progress: position and values read
    response,    \* the response a query handler has produced, until the client takes it
    observed,    \* per job id: <<status, progress>> of the latest JobStatus a client took
    held,        \* per job id: every {status, progress, total, error} the job held
    failed_idx,  \* per job id: record indices whose execute_llm_run raised
    calls,       \* per job id: number of execute_llm_run invocations
    run,         \* one call of execute_llm_run: position and locals
    templates,   \* TEMPLATES_DIR: the stems of the template files
    uploads      \* create_dataset per request in progress: position and locals

vars == <<datasets, job_store, submitted, task, client, response, observed,
          held, failed_idx, calls, run, templates, uploads>>

(***************************************************************************)
(* Bounds                                                                  *)
(***************************************************************************)
MaxRecords == 2     \* longest driving dataset
MaxBindings == 2    \* longest datasource_bindings list
MaxNameSegments == 2    \* "__"-separated segments of a template name

(***************************************************************************)
(* Values                                                                  *)
(***************************************************************************)
None == "None"              \* Python None where the other values are strings
Absent == "<absent>"        \* a key that a dict does not have
NoValue == <<>>             \* a result field that the entry does not have

Keys == {"x"}               \* keys of structured records
Vals == {"1", "2"}

\* A record of a dataset: a structured mapping or a text blob.
Dict(m) == <<"dict", m>>
Text(s) == <<"text", s>>
NoRecord == <<"None">>      \* record=None of execute_llm_run
Unbound == <<"unbound">>    \* the local context_value before its first assignment

EmptyDict == Dict([k \in Keys |-> Absent])
DictX(v) == Dict([k \in Keys |-> v])

\* Python truth value of `record` (line 365): None, {} and "" are false.
Truthy(record) ==
    /\ record # NoRecord
    /\ record[1] = "dict" => \E k \in Keys : record[2][k] # Absent
    /\ record[1] = "text" => record[2] # ""

(***************************************************************************)
(* Dataset storage                                                         *)
(***************************************************************************)
NoFile == [state |-> "missing", records |-> <<>>]
CorruptFile == [state |-> "corrupt", records |-> <<>>]
File(recs) == [state |-> "ok", records |-> recs]

\* _find_dataset_file: the file of the dataset, or None.
_find_dataset_file(store, dataset_id) ==
    IF dataset_id \in DOMAIN store /\ store[dataset_id].state # "missing"
    THEN store[dataset_id]
    ELSE NoFile

\* _load_dataset_file: the records, or HTTPException(500) when the file
\* cannot be read or parsed.
LoadRaises(file) == file.state = "corrupt"
_load_dataset_file(file) == file.records

\* The requests to POST /datasets that the server handles at a time, and the
\* locals of create_dataset before a call; result is the status of the
\* response of the call before.
Uploaders == {"p1", "p2"}
IdleUpload == [pc |-> "idle", dataset_id |-> "", dataset_name |-> "", suffix |-> "",
               result |-> ""]
IdleUploads == [p \in Uploaders |-> IdleUpload]

(***************************************************************************)
(* Requests                                                                *)
(***************************************************************************)
\* DataSourceBinding.row is <<>> for None and <<n>> for the integer n.
DataSourceBinding(source_id, context_key, scope, row) ==
    [source_id |-> source_id, context_key |-> context_key, scope |-> scope,
     row |-> row]

\* ParserSpec() defaults
DefaultParserSpec == [type |-> "raw", pydantic_model |-> None, python_code |-> None]
NoParser == [type |-> None, pydantic_model |-> None, python_code |-> None]

RunRequest(template_id, template_text, bindings, parser, llm) ==
    [template_id |-> template_id, template_text |-> template_text,
     datasource_bindings |-> bindings, parser |-> parser, llm |-> llm]

NoRequest == RunRequest(None, None, <<>>, NoParser, None)

(***************************************************************************)
(* Template storage and rendering                                          *)
(***************************************************************************)
TemplateFiles == [t \in {"t1"} |-> "val={{x}}"]

\* _find_template_file: the file's content, or None.
_find_template_file(template_id) ==
    IF template_id \in DOMAIN TemplateFiles THEN TemplateFiles[template_id] ELSE None

\* The variable a template substitutes: "" when it substitutes none.
TemplateVar(content) == IF content = "val={{x}}" THEN "x" ELSE ""
SyntaxError(content) == content = "{{"

(***************************************************************************)
(* execute_llm_run                                                         *)
(***************************************************************************)
ContextKeys == {"", "k"}            \* values of DataSourceBinding.context_key
CtxKeys == Keys \cup ContextKeys    \* keys a context can hold

Undefined == <<"undef">>
EmptyContext == [k \in CtxKeys |-> Undefined]

\* An outcome of execute_llm_run or of one of its steps: exc = "" when nothing
\* was raised, else the class of the exception.
Raise(exc, msg) ==
    [exc |-> exc, msg |-> msg, raw_response |-> NoValue, parsed_response |-> NoValue]
Return(raw, parsed) ==
    [exc |-> "", msg |-> "", raw_response |-> raw, parsed_response |-> parsed]

RowOrZero(binding) == IF binding.row = <<>> THEN 0 ELSE binding.row[1]

\* Mutant of ResolveBinding: a global binding follows the current record when
\* one is supplied.
ResolveBinding_GlobalFollowsRecord(binding, record, cv, store) ==
    LET dataset_file == _find_dataset_file(store, binding.source_id)
        data == _load_dataset_file(dataset_file)
        row == RowOrZero(binding)
    IN  IF dataset_file = NoFile
        THEN [exc |-> "ValueError", msg |-> "Dataset not found", value |-> cv]
        ELSE IF Truthy(record)
        THEN [exc |-> "", msg |-> "", value |-> record]
        ELSE IF LoadRaises(dataset_file)
        THEN [exc |-> "HTTPException", msg |-> "Error reading dataset", value |-> cv]
        ELSE IF binding.scope = "global"
        THEN IF ~(0 <= row /\ row < Len(data))
             THEN [exc |-> "ValueError", msg |-> "Invalid row index", value |-> cv]
             ELSE [exc |-> "", msg |-> "", value |-> data[row + 1]]
        ELSE IF Len(data) > 0
        THEN [exc |-> "", msg |-> "", value |-> data[1]]
        ELSE [exc |-> "", msg |-> "", value |-> cv]

\* Mutant of ResolveBinding: `if not (row < len(data))`, so that a negative row
\* indexes from the end of the list, or raises IndexError past its start.
ResolveBinding_NoLowerBound(binding, record, cv, store) ==
    LET dataset_file == _find_dataset_file(store, binding.source_id)
        data == _load_dataset_file(dataset_file)
        row == RowOrZero(binding)
    IN  IF dataset_file = NoFile
        THEN [exc |-> "ValueError", msg |-> "Dataset not found", value |-> cv]
        ELSE IF binding.scope = "global"
        THEN IF LoadRaises(dataset_file)
             THEN [exc |-> "HTTPException", msg |-> "Error reading dataset", value |-> cv]
             ELSE IF ~(row < Len(data))
             THEN [exc |-> "ValueError", msg |-> "Invalid row index", value |-> cv]
             ELSE IF row >= 0
             THEN [exc |-> "", msg |-> "", value |-> data[row + 1]]
             ELSE IF Len(data) + row >= 0
             THEN [exc |-> "", msg |-> "", value |-> data[Len(data) + row + 1]]
             ELSE [exc |-> "IndexError", msg |-> "list index out of range", value |-> cv]
        ELSE IF Truthy(record)
        THEN [exc |-> "", msg |-> "", value |-> record]
        ELSE IF LoadRaises(dataset_file)
        THEN [exc |-> "HTTPException", msg |-> "Error reading dataset", value |-> cv]
        ELSE IF Len(data) > 0
        THEN [exc |-> "", msg |-> "", value |-> data[1]]
        ELSE [exc |-> "", msg |-> "", value |-> cv]

\* Lines 352-371: the value of context_value after the binding was resolved;
\* cv is its value before (it is a local of the function, not of the loop).
ResolveBinding(binding, record, cv, store) ==
    LET dataset_file == _find_dataset_file(store, binding.source_id)
        data == _load_dataset_file(dataset_file)
        row == RowOrZero(binding)
    IN  IF dataset_file = NoFile
        THEN [exc |-> "ValueError", msg |-> "Dataset not found", value |-> cv]
        ELSE IF binding.scope = "global"
        THEN IF LoadRaises(dataset_file)
             THEN [exc |-> "HTTPException", msg |-> "Error reading dataset", value |-> cv]
             ELSE IF ~(0 <= row /\ row < Len(data))
             THEN [exc |-> "ValueError", msg |-> "Invalid row index", value |-> cv]
             ELSE [exc |-> "", msg |-> "", value |-> data[row + 1]]
        ELSE IF Truthy(record)
        THEN [exc |-> "", msg |-> "", value |-> record]
        ELSE IF LoadRaises(dataset_file)
        THEN [exc |-> "HTTPException", msg |-> "Error reading dataset", value |-> cv]
        ELSE IF Len(data) > 0
        THEN [exc |-> "", msg |-> "", value |-> data[1]]
        ELSE [exc |-> "", msg |-> "", value |-> cv]

\* Mutant of MergeBinding: { **context_value, **context }, a spliced key does
\* not replace a key the context already holds.
MergeBinding_EarlierWins(context, context_key, context_value) ==
    IF context_key = "" /\ context_value[1] = "dict"
    THEN [k \in CtxKeys |->
            IF k \in Keys /\ context_value[2][k] # Absent /\ context[k] = Undefined
            THEN <<"val", context_value[2][k]>>
            ELSE context[k]]
    ELSE [context EXCEPT ![context_key] = <<"rec", context_value>>]

\* Lines 373-376: splice a dict under the empty key, assign anything else.
MergeBinding(context, context_key, context_value) ==
    IF context_key = "" /\ context_value[1] = "dict"
    THEN [k \in CtxKeys |->
            IF k \in Keys /\ context_value[2][k] # Absent
            THEN <<"val", context_value[2][k]>>
            ELSE context[k]]
    ELSE [context EXCEPT ![context_key] = <<"rec", context_value>>]

\* Lines 350-376 over the first n bindings.
RECURSIVE BuildContext(_, _, _, _)
BuildContext(bindings, n, record, store) ==
    IF n = 0
    THEN [exc |-> "", msg |-> "", context |-> EmptyContext, context_value |-> Unbound]
    ELSE LET before == BuildContext(bindings, n - 1, record, store)
             binding == bindings[n]
             got == ResolveBinding(binding, record, before.context_value, store)
         IN  IF before.exc # ""
             THEN before
             ELSE IF got.exc # ""
             THEN [before EXCEPT !.exc = got.exc, !.msg = got.msg]
             ELSE IF got.value = Unbound
             THEN [before EXCEPT !.exc = "UnboundLocalError",
                                 !.msg = "context_value referenced before assignment"]
             ELSE [exc |-> "", msg |-> "",
                   context |-> MergeBinding(before.context, binding.context_key, got.value),
                   context_value |-> got.value]

\* Lines 379-381: the prompt is the template with the value of its variable; an
\* undefined variable renders as nothing.
Render(content, context) ==
    <<content, IF TemplateVar(content) = "" THEN Undefined
               ELSE context[TemplateVar(content)]>>

\* Lines 384-410 for a prompt; llm_ok says whether the model call succeeds.
ExecuteAndParse(request, prompt, llm_ok) ==
    LET parser_spec == IF request.parser = NoParser THEN DefaultParserSpec
                       ELSE request.parser
    IN  IF request.llm = None
        THEN Raise("AttributeError", "'NoneType' object has no attribute 'model'")
        ELSE IF parser_spec.type = "structured" /\ parser_spec.pydantic_model # None
        THEN IF parser_spec.pydantic_model = "invalid"
             THEN Raise("ValueError", "Pydantic model parsing failed")
             ELSE IF ~llm_ok
             THEN Raise("ValueError", "Pydantic model parsing failed")
             ELSE Return(<<"str", prompt>>, <<"model_dump", prompt>>)
        ELSE IF parser_spec.type = "python" /\ parser_spec.python_code # None
        THEN IF ~llm_ok
             THEN Raise("LLMError", "model call failed")
             ELSE IF parser_spec.python_code = "invalid"
             THEN Raise("ValueError", "Custom Python parsing failed")
             ELSE Raise("AttributeError", "object has no attribute 'model_dump'")
        ELSE IF ~llm_ok
             THEN Raise("LLMError", "model call failed")
             ELSE Raise("AttributeError", "'str' object has no attribute 'model_dump'")

execute_llm_run(request, record, store, llm_ok) ==
    LET template_content ==
            IF request.template_id # None /\ request.template_id # ""
            THEN _find_template_file(request.template_id)
            ELSE IF request.template_text = None THEN "" ELSE request.template_text
        built == BuildContext(request.datasource_bindings,
                              Len(request.datasource_bindings), record, store)
    IN  IF template_content = None
        THEN Raise("ValueError", "Template not found")
        ELSE IF built.exc # ""
        THEN Raise(built.exc, built.msg)
        ELSE IF SyntaxError(template_content)
        THEN Raise("TemplateSyntaxError", "unexpected end of template")
        ELSE ExecuteAndParse(request, Render(template_content, built.context), llm_ok)

\* The locals of a call of execute_llm_run, before the call.
NoHTTP == [kind |-> "", raw_response |-> NoValue, parsed_response |-> NoValue,
           error |-> None]

IdleRun ==
    [pc |-> "none", request |-> NoRequest, record |-> NoRecord, llm_ok |-> TRUE,
     solo |-> TRUE, template_content |-> None, n |-> 0, context |-> EmptyContext,
     before |-> EmptyContext, context_value |-> Unbound, resolved |-> <<>>,
     llm_called |-> FALSE, out |-> Raise("", ""), http |-> NoHTTP]

(***************************************************************************)
(* Batch job engine                                                        *)
(***************************************************************************)
JobIds == {"j1"}            \* ids that uuid4 hands out
UnknownIds == {"j0"}        \* an id that no job ever gets

\* Line 454
NewJob == [status |-> "running", progress |-> 0, total |-> 0, results |-> <<>>,
           error |-> None]

Snapshot(job) == [status |-> job.status, progress |-> job.progress,
                  total |-> job.total, error |-> job.error]

IdleTask == [pc |-> "none", request |-> NoRequest, record_data |-> <<>>, i |-> 0,
             e |-> ""]

\* Mutant of RecordScopedBinding: the last record-scoped binding drives.
RecordScopedBinding_Last(bindings) ==
    IF \E n \in 1..Len(bindings) : bindings[n].scope = "record"
    THEN CHOOSE n \in 1..Len(bindings) :
            /\ bindings[n].scope = "record"
            /\ \A m \in (n + 1)..Len(bindings) : bindings[m].scope # "record"
    ELSE 0

\* Line 458: next((b for b in bindings if b.scope == 'record'), None), as the
\* index of the binding; 0 for None.
RecordScopedBinding(bindings) ==
    IF \E n \in 1..Len(bindings) : bindings[n].scope = "record"
    THEN CHOOSE n \in 1..Len(bindings) :
            /\ bindings[n].scope = "record"
            /\ \A m \in 1..(n - 1) : bindings[m].scope # "record"
    ELSE 0

\* Lines 473 and 475: the entry appended for a record.
ResultEntry(record, out) ==
    IF out.exc = ""
    THEN [input_record |-> record, raw_response |-> out.raw_response,
          parsed_response |-> out.parsed_response, error |-> Absent]
    ELSE [input_record |-> record, raw_response |-> NoValue,
          parsed_response |-> NoValue, error |-> out.msg]

SetJob(j, job) ==
    /\ job_store' = [job_store EXCEPT ![j] = job]
    /\ held' = [held EXCEPT ![j] = @ \cup {Snapshot(job)}]

\* run_batch: a fresh id, the task queued behind the response, the id returned.
run_batch(j, request) ==
    /\ task[j].pc = "none"
    /\ task' = [task EXCEPT ![j] = [IdleTask EXCEPT !.pc = "queued", !.request = request]]
    /\ submitted' = submitted \cup {j}
    /\ UNCHANGED <<uploads, run, templates, datasets, job_store, client, response, observed, held,
                   failed_idx, calls>>

\* Line 454: the task starts and creates the job.
TaskCreate(j) ==
    /\ task[j].pc = "queued"
    /\ job_store' = [k \in DOMAIN job_store \cup {j} |->
                        IF k = j THEN NewJob ELSE job_store[k]]
    /\ held' = [held EXCEPT ![j] = @ \cup {Snapshot(NewJob)}]
    /\ task' = [task EXCEPT ![j].pc = "setup"]
    /\ UNCHANGED <<uploads, run, templates, datasets, submitted, client, response, observed, failed_idx, calls>>

\* Mutant of TaskSetup: a request without a record-scoped binding is run as a
\* batch over no records.
TaskSetup_EmptyWithoutBinding(j) ==
    /\ task[j].pc = "setup"
    /\ LET bindings == task[j].request.datasource_bindings
           n == RecordScopedBinding(bindings)
           record_dataset_file == _find_dataset_file(datasets, bindings[n].source_id)
           record_data == _load_dataset_file(record_dataset_file)
       IN  IF n = 0
           THEN /\ task' = [task EXCEPT ![j].pc = "complete"]
                /\ UNCHANGED <<job_store, held>>
           ELSE IF record_dataset_file = NoFile \/ LoadRaises(record_dataset_file)
           THEN /\ task' = [task EXCEPT ![j].pc = "except",
                                        ![j].e = "Record-scoped dataset not found."]
                /\ UNCHANGED <<job_store, held>>
           ELSE /\ SetJob(j, [job_store[j] EXCEPT !.total = Len(record_data)])
                /\ task' = [task EXCEPT ![j].record_data = record_data,
                                        ![j].i = 0,
                                        ![j].pc = IF Len(record_data) = 0
                                                  THEN "complete" ELSE "execute"]
    /\ UNCHANGED <<uploads, run, templates, datasets, submitted, client, response, observed, failed_idx, calls>>

\* Lines 456-468: find the driving dataset, load it, set total.
TaskSetup(j) ==
    /\ task[j].pc = "setup"
    /\ LET bindings == task[j].request.datasource_bindings
           n == RecordScopedBinding(bindings)
           record_dataset_file == _find_dataset_file(datasets, bindings[n].source_id)
           record_data == _load_dataset_file(record_dataset_file)
       IN  IF n = 0
           THEN /\ task' = [task EXCEPT ![j].pc = "except",
                                        ![j].e = "Batch run requires at least one 'record' scoped dataset."]
                /\ UNCHANGED <<job_store, held>>
           ELSE IF record_dataset_file = NoFile
           THEN /\ task' = [task EXCEPT ![j].pc = "except",
                                        ![j].e = "Record-scoped dataset not found."]
                /\ UNCHANGED <<job_store, held>>
           ELSE IF LoadRaises(record_dataset_file)
           THEN /\ task' = [task EXCEPT ![j].pc = "except",
                                        ![j].e = "500: Error reading or parsing dataset file"]
                /\ UNCHANGED <<job_store, held>>
           ELSE /\ SetJob(j, [job_store[j] EXCEPT !.total = Len(record_data)])
                /\ task' = [task EXCEPT ![j].record_data = record_data,
                                        ![j].i = 0,
                                        ![j].pc = IF Len(record_data) = 0
                                                  THEN "complete" ELSE "execute"]
    /\ UNCHANGED <<uploads, run, templates, datasets, submitted, client, response, observed, failed_idx, calls>>

\* Mutant of TaskExecute: no try around the executor, so that a failure on a
\* record reaches the handler of the whole batch.
TaskExecute_NoCatch(j) ==
    /\ task[j].pc = "execute"
    /\ \E llm_ok \in BOOLEAN :
        LET record == task[j].record_data[task[j].i + 1]
            out == execute_llm_run(task[j].request, record, datasets, llm_ok)
        IN  IF out.exc = ""
            THEN /\ SetJob(j, [job_store[j] EXCEPT
                                 !.results = Append(@, ResultEntry(record, out))])
                 /\ task' = [task EXCEPT ![j].pc = "progress"]
                 /\ UNCHANGED failed_idx
            ELSE /\ task' = [task EXCEPT ![j].pc = "except", ![j].e = out.msg]
                 /\ failed_idx' = [failed_idx EXCEPT ![j] = @ \cup {task[j].i}]
                 /\ UNCHANGED <<job_store, held>>
    /\ calls' = [calls EXCEPT ![j] = @ + 1]
    /\ UNCHANGED <<uploads, run, templates, datasets, submitted, client, response, observed>>

\* Mutant of TaskExecute: a failure on a record is swallowed, no entry appended.
TaskExecute_DropsFailure(j) ==
    /\ task[j].pc = "execute"
    /\ \E llm_ok \in BOOLEAN :
        LET record == task[j].record_data[task[j].i + 1]
            out == execute_llm_run(task[j].request, record, datasets, llm_ok)
        IN  IF out.exc = ""
            THEN /\ SetJob(j, [job_store[j] EXCEPT
                                 !.results = Append(@, ResultEntry(record, out))])
                 /\ UNCHANGED failed_idx
            ELSE /\ failed_idx' = [failed_idx EXCEPT ![j] = @ \cup {task[j].i}]
                 /\ UNCHANGED <<job_store, held>>
    /\ calls' = [calls EXCEPT ![j] = @ + 1]
    /\ task' = [task EXCEPT ![j].pc = "progress"]
    /\ UNCHANGED <<uploads, run, templates, datasets, submitted, client, response, observed>>

\* Lines 471-475: run the executor on record i and append its entry.
TaskExecute(j) ==
    /\ task[j].pc = "execute"
    /\ \E llm_ok \in BOOLEAN :
        LET record == task[j].record_data[task[j].i + 1]
            out == execute_llm_run(task[j].request, record, datasets, llm_ok)
        IN  /\ SetJob(j, [job_store[j] EXCEPT
                            !.results = Append(@, ResultEntry(record, out))])
            /\ failed_idx' = [failed_idx EXCEPT ![j] =
                                IF out.exc = "" THEN @ ELSE @ \cup {task[j].i}]
    /\ calls' = [calls EXCEPT ![j] = @ + 1]
    /\ task' = [task EXCEPT ![j].pc = "progress"]
    /\ UNCHANGED <<uploads, run, templates, datasets, submitted, client, response, observed>>

\* Mutant of TaskProgress: progress counts the records that remain.
TaskProgress_Countdown(j) ==
    /\ task[j].pc = "progress"
    /\ SetJob(j, [job_store[j] EXCEPT
                    !.progress = Len(task[j].record_data) - (task[j].i + 1)])
    /\ task' = [task EXCEPT ![j].i = @ + 1,
                            ![j].pc = IF task[j].i + 1 < Len(task[j].record_data)
                                      THEN "execute" ELSE "complete"]
    /\ UNCHANGED <<uploads, run, templates, datasets, submitted, client, response, observed, failed_idx, calls>>

\* Mutant of TaskProgress: progress = i instead of i + 1.
TaskProgress_OffByOne(j) ==
    /\ task[j].pc = "progress"
    /\ SetJob(j, [job_store[j] EXCEPT !.progress = task[j].i])
    /\ task' = [task EXCEPT ![j].i = @ + 1,
                            ![j].pc = IF task[j].i + 1 < Len(task[j].record_data)
                                      THEN "execute" ELSE "complete"]
    /\ UNCHANGED <<uploads, run, templates, datasets, submitted, client, response, observed, failed_idx, calls>>

\* Line 477, and the loop's next iteration or exit.
TaskProgress(j) ==
    /\ task[j].pc = "progress"
    /\ SetJob(j, [job_store[j] EXCEPT !.progress = task[j].i + 1])
    /\ task' = [task EXCEPT ![j].i = @ + 1,
                            ![j].pc = IF task[j].i + 1 < Len(task[j].record_data)
                                      THEN "execute" ELSE "complete"]
    /\ UNCHANGED <<uploads, run, templates, datasets, submitted, client, response, observed, failed_idx, calls>>

\* Mutant of TaskComplete: a statement after line 480 raises inside the try.
TaskComplete_ThenRaises(j) ==
    /\ task[j].pc = "complete"
    /\ SetJob(j, [job_store[j] EXCEPT !.status = "completed"])
    /\ task' = [task EXCEPT ![j].pc = "except", ![j].e = "raised after the loop"]
    /\ UNCHANGED <<uploads, run, templates, datasets, submitted, client, response, observed, failed_idx, calls>>

\* Line 480
TaskComplete(j) ==
    /\ task[j].pc = "complete"
    /\ SetJob(j, [job_store[j] EXCEPT !.status = "completed"])
    /\ task' = [task EXCEPT ![j].pc = "done"]
    /\ UNCHANGED <<uploads, run, templates, datasets, submitted, client, response, observed, failed_idx, calls>>

\* Mutant of TaskFailStatus: `except Exception: pass`, the handler records
\* nothing.
TaskFailStatus_Swallow(j) ==
    /\ task[j].pc = "except"
    /\ task' = [task EXCEPT ![j].pc = "done"]
    /\ UNCHANGED <<uploads, run, templates, datasets, job_store, submitted, client, response, observed,
                   held, failed_idx, calls>>

\* Line 483
TaskFailStatus(j) ==
    /\ task[j].pc = "except"
    /\ SetJob(j, [job_store[j] EXCEPT !.status = "failed"])
    /\ task' = [task EXCEPT ![j].pc = "except_error"]
    /\ UNCHANGED <<uploads, run, templates, datasets, submitted, client, response, observed, failed_idx, calls>>

\* Line 484
TaskFailError(j) ==
    /\ task[j].pc = "except_error"
    /\ SetJob(j, [job_store[j] EXCEPT !.error = task[j].e])
    /\ task' = [task EXCEPT ![j].pc = "done"]
    /\ UNCHANGED <<uploads, run, templates, datasets, submitted, client, response, observed, failed_idx, calls>>

batch_process_task(j) ==
    \/ TaskCreate(j)
    \/ TaskSetup(j)
    \/ TaskExecute(j)
    \/ TaskProgress(j)
    \/ TaskComplete(j)
    \/ TaskFailStatus(j)
    \/ TaskFailError(j)

(***************************************************************************)
(* Job queries                                                             *)
(***************************************************************************)
IdleClient == [pc |-> "idle", endpoint |-> "", job_id |-> "", status |-> "",
               progress |-> 0, total |-> 0]

NoResponse == [endpoint |-> "", job_id |-> "", error |-> "", status |-> "",
               progress |-> 0, total |-> 0, job_error |-> None, results |-> <<>>]

HTTPError(endpoint, job_id, error) ==
    [NoResponse EXCEPT !.endpoint = endpoint, !.job_id = job_id, !.error = error]

\* Lines 495-498, up to the read of job["status"]. A client calls with an id
\* that run_batch gave it, or with an unknown one.
StatusLookup(job_id) ==
    /\ client.pc = "idle"
    /\ job_id \in submitted \cup UnknownIds
    /\ IF job_id \notin DOMAIN job_store
       THEN /\ response' = HTTPError("status", job_id, "JobNotFound")
            /\ client' = [IdleClient EXCEPT !.pc = "respond", !.endpoint = "status",
                                            !.job_id = job_id]
       ELSE /\ client' = [IdleClient EXCEPT !.pc = "progress", !.endpoint = "status",
                                            !.job_id = job_id,
                                            !.status = job_store[job_id].status]
            /\ UNCHANGED response
    /\ UNCHANGED <<uploads, run, templates, datasets, job_store, submitted, task, observed, held,
                   failed_idx, calls>>

\* Line 498: the read of job["progress"].
StatusReadProgress ==
    /\ client.pc = "progress"
    /\ client' = [client EXCEPT !.pc = "total",
                                !.progress = job_store[client.job_id].progress]
    /\ UNCHANGED <<uploads, run, templates, datasets, job_store, submitted, task, response, observed, held,
                   failed_idx, calls>>

\* Line 498: the read of job["total"].
StatusReadTotal ==
    /\ client.pc = "total"
    /\ client' = [client EXCEPT !.pc = "error",
                                !.total = job_store[client.job_id].total]
    /\ UNCHANGED <<uploads, run, templates, datasets, job_store, submitted, task, response, observed, held,
                   failed_idx, calls>>

\* Line 498: the read of job["error"], and the JobStatus returned.
StatusReturn ==
    /\ client.pc = "error"
    /\ LET body == [status |-> client.status, progress |-> client.progress,
                    total |-> client.total,
                    error |-> job_store[client.job_id].error]
       IN  /\ response' = [NoResponse EXCEPT
                             !.endpoint = "status", !.job_id = client.job_id,
                             !.status = body.status, !.progress = body.progress,
                             !.total = body.total, !.job_error = body.error]
    /\ client' = [client EXCEPT !.pc = "respond"]
    /\ UNCHANGED <<uploads, run, templates, datasets, job_store, submitted, task, observed, held,
                   failed_idx, calls>>

\* The client takes the response; of a JobStatus it keeps what it saw.
ClientReceive ==
    /\ client.pc = "respond"
    /\ observed' = IF response.endpoint = "status" /\ response.error = ""
                   THEN [observed EXCEPT ![response.job_id] =
                            <<response.status, response.progress>>]
                   ELSE observed
    /\ response' = NoResponse
    /\ client' = IdleClient
    /\ UNCHANGED <<uploads, run, templates, datasets, job_store, submitted, task, held, failed_idx, calls>>

get_job_status(job_id) ==
    \/ StatusLookup(job_id)
    \/ StatusReadProgress
    \/ StatusReadTotal
    \/ StatusReturn

\* Mutant of ResultLookup: only a running job is "not yet complete".
ResultLookup_OnlyRunning(job_id) ==
    /\ client.pc = "idle"
    /\ job_id \in submitted \cup UnknownIds
    /\ IF job_id \notin DOMAIN job_store
       THEN /\ response' = HTTPError("result", job_id, "JobNotFound")
            /\ client' = [IdleClient EXCEPT !.pc = "respond", !.endpoint = "result",
                                            !.job_id = job_id]
       ELSE IF job_store[job_id].status = "running"
       THEN /\ response' = HTTPError("result", job_id, "JobNotComplete")
            /\ client' = [IdleClient EXCEPT !.pc = "respond", !.endpoint = "result",
                                            !.job_id = job_id]
       ELSE /\ client' = [IdleClient EXCEPT !.pc = "results", !.endpoint = "result",
                                            !.job_id = job_id]
            /\ UNCHANGED response
    /\ UNCHANGED <<uploads, run, templates, datasets, job_store, submitted, task, observed, held,
                   failed_idx, calls>>

\* Lines 502-506
ResultLookup(job_id) ==
    /\ client.pc = "idle"
    /\ job_id \in submitted \cup UnknownIds
    /\ IF job_id \notin DOMAIN job_store
       THEN /\ response' = HTTPError("result", job_id, "JobNotFound")
            /\ client' = [IdleClient EXCEPT !.pc = "respond", !.endpoint = "result",
                                            !.job_id = job_id]
       ELSE IF job_store[job_id].status # "completed"
       THEN /\ response' = HTTPError("result", job_id, "JobNotComplete")
            /\ client' = [IdleClient EXCEPT !.pc = "respond", !.endpoint = "result",
                                            !.job_id = job_id]
       ELSE /\ client' = [IdleClient EXCEPT !.pc = "results", !.endpoint = "result",
                                            !.job_id = job_id]
            /\ UNCHANGED response
    /\ UNCHANGED <<uploads, run, templates, datasets, job_store, submitted, task, observed, held,
                   failed_idx, calls>>

\* Line 507
ResultReturn ==
    /\ client.pc = "results"
    /\ response' = [NoResponse EXCEPT
                      !.endpoint = "result", !.job_id = client.job_id,
                      !.results = job_store[client.job_id].results]
    /\ client' = [client EXCEPT !.pc = "respond"]
    /\ UNCHANGED <<uploads, run, templates, datasets, job_store, submitted, task, observed, held,
                   failed_idx, calls>>

get_job_result(job_id) ==
    \/ ResultLookup(job_id)
    \/ ResultReturn

(***************************************************************************)
(* The batch engine with one client polling it                             *)
(***************************************************************************)
RECURSIVE SeqsUpTo(_, _)
SeqsUpTo(S, n) ==
    IF n = 0 THEN {<<>>}
    ELSE SeqsUpTo(S, n - 1) \cup
         {Append(q, x) : q \in {r \in SeqsUpTo(S, n - 1) : Len(r) = n - 1}, x \in S}

BatchRecords == {DictX("1"), EmptyDict}

\* "d1" holds any records, cannot be parsed or does not exist; "d2" is a text
\* file.
BatchStores ==
    {[d \in {"d1", "d2"} |-> IF d = "d1" THEN f ELSE File(<<Text("t")>>)] :
        f \in {File(recs) : recs \in SeqsUpTo(BatchRecords, MaxRecords)}
                \cup {CorruptFile, NoFile}}

BatchBindings ==
    {DataSourceBinding("d1", "", "record", <<>>),
     DataSourceBinding("d2", "k", "record", <<>>),
     DataSourceBinding("d1", "k", "global", <<>>)}

StructuredParser == [type |-> "structured", pydantic_model |-> "class M(BaseModel)",
                     python_code |-> None]

BatchRequests ==
    {RunRequest(None, "val={{x}}", bindings, parser, "gpt-3.5-turbo") :
        bindings \in SeqsUpTo(BatchBindings, MaxBindings),
        parser \in {NoParser, StructuredParser}}

Init ==
    /\ datasets \in BatchStores
    /\ job_store = <<>>
    /\ submitted = {}
    /\ task = [j \in JobIds |-> IdleTask]
    /\ client = IdleClient
    /\ response = NoResponse
    /\ observed = [j \in JobIds |-> <<>>]
    /\ held = [j \in JobIds |-> {}]
    /\ failed_idx = [j \in JobIds |-> {}]
    /\ calls = [j \in JobIds |-> 0]
    /\ run = IdleRun
    /\ templates = {}
    /\ uploads = IdleUploads

Next ==
    \/ \E j \in JobIds, request \in BatchRequests : run_batch(j, request)
    \/ \E j \in JobIds : batch_process_task(j)
    \/ \E job_id \in JobIds \cup UnknownIds : get_job_status(job_id)
    \/ \E job_id \in JobIds \cup UnknownIds : get_job_result(job_id)
    \/ ClientReceive

Spec == Init /\ [][Next]_vars

\* The batch engine alone, with the scheduling the framework gives the
\* background task: the worker thread that runs batch_process_task keeps
\* running, and a model call returns or raises (TaskExecute is one step).
NextLive ==
    \/ \E j \in JobIds, request \in BatchRequests : run_batch(j, request)
    \/ \E j \in JobIds : batch_process_task(j)

SpecLive ==
    /\ Init
    /\ [][NextLive]_vars
    /\ \A j \in JobIds : WF_vars(batch_process_task(j))


(***************************************************************************)
(* One call of execute_llm_run, statement by statement, from run_llm       *)
(* (record = None) or from the loop of batch_process_task (record = a      *)
(* record of the driving dataset)                                          *)
(***************************************************************************)
batch_vars == <<job_store, submitted, task, client, response, observed, held,
                failed_idx, calls>>

\* Lines 341-347: the template's text.
RunTemplate ==
    /\ run.pc = "none"
    /\ LET request == run.request
           template_content ==
               IF request.template_id # None /\ request.template_id # ""
               THEN _find_template_file(request.template_id)
               ELSE IF request.template_text = None THEN "" ELSE request.template_text
       IN  IF template_content = None
           THEN run' = [run EXCEPT !.pc = "failed",
                                   !.out = Raise("ValueError", "Template not found")]
           ELSE run' = [run EXCEPT !.pc = "bind", !.template_content = template_content]
    /\ UNCHANGED <<uploads, datasets, templates, batch_vars>>

\* Lines 351-376 for the next binding of the list.
RunBind ==
    /\ run.pc = "bind"
    /\ run.n < Len(run.request.datasource_bindings)
    /\ LET after == BuildContext(run.request.datasource_bindings, run.n + 1,
                                 run.record, datasets)
       IN  IF after.exc # ""
           THEN run' = [run EXCEPT !.pc = "failed", !.n = @ + 1,
                                   !.out = Raise(after.exc, after.msg)]
           ELSE run' = [run EXCEPT !.n = @ + 1, !.before = run.context,
                                   !.context = after.context,
                                   !.context_value = after.context_value,
                                   !.resolved = Append(@, after.context_value)]
    /\ UNCHANGED <<uploads, datasets, templates, batch_vars>>

\* Whether lines 384-410 reach a call of the model.
LLMCalled(request) ==
    LET parser_spec == IF request.parser = NoParser THEN DefaultParserSpec
                       ELSE request.parser
    IN  /\ request.llm # None
        /\ ~(/\ parser_spec.type = "structured"
             /\ parser_spec.pydantic_model = "invalid")

\* Lines 378-410: render, call the model, parse, package.
RunExecute ==
    /\ run.pc = "bind"
    /\ run.n = Len(run.request.datasource_bindings)
    /\ IF SyntaxError(run.template_content)
       THEN run' = [run EXCEPT !.pc = "failed",
                               !.out = Raise("TemplateSyntaxError",
                                             "unexpected end of template")]
       ELSE LET out == ExecuteAndParse(run.request,
                                       Render(run.template_content, run.context),
                                       run.llm_ok)
            IN  run' = [run EXCEPT !.pc = IF out.exc = "" THEN "returned" ELSE "failed",
                                   !.llm_called = LLMCalled(run.request),
                                   !.out = out]
    /\ UNCHANGED <<uploads, datasets, templates, batch_vars>>

\* Lines 446-450: RunResponse(**result), or RunResponse(raw_response="",
\* error=str(e)) for a ValueError or an HTTPException; any other exception
\* leaves the handler.
run_llm ==
    /\ run.solo
    /\ run.pc \in {"returned", "failed"}
    /\ run' = [run EXCEPT
                 !.pc = "done",
                 !.http =
                    IF run.out.exc = ""
                    THEN [kind |-> "RunResponse", raw_response |-> run.out.raw_response,
                          parsed_response |-> run.out.parsed_response, error |-> None]
                    ELSE IF run.out.exc \in {"ValueError", "HTTPException"}
                    THEN [kind |-> "RunResponse", raw_response |-> <<"">>,
                          parsed_response |-> NoValue, error |-> run.out.msg]
                    ELSE [kind |-> "unhandled", raw_response |-> NoValue,
                          parsed_response |-> NoValue, error |-> run.out.msg]]
    /\ UNCHANGED <<uploads, datasets, templates, batch_vars>>

\* Lines 471-475: the entry that the batch loop appends for the record.
RunAppend ==
    /\ ~run.solo
    /\ run.pc \in {"returned", "failed"}
    /\ LET entry == ResultEntry(run.record, run.out)
       IN  run' = [run EXCEPT
                     !.pc = "done",
                     !.http = [kind |-> "entry", raw_response |-> entry.raw_response,
                               parsed_response |-> entry.parsed_response,
                               error |-> IF entry.error = Absent THEN None
                                         ELSE entry.error]]
    /\ UNCHANGED <<uploads, datasets, templates, batch_vars>>

RunNext ==
    \/ RunTemplate
    \/ RunBind
    \/ RunExecute
    \/ run_llm
    \/ RunAppend

RunRecords == {DictX("1"), DictX("2"), EmptyDict}

\* "d1" holds any records, cannot be parsed or does not exist; "d2" is a text
\* file, which holds one record, the file's text.
RunStores ==
    {[d \in {"d1", "d2"} |-> IF d = "d1" THEN f ELSE File(<<Text(t)>>)] :
        f \in {File(recs) : recs \in SeqsUpTo(RunRecords, MaxRecords)}
                \cup {CorruptFile, NoFile},
        t \in {"t", ""}}

ExecStores ==
    {[d \in {"d1", "d2"} |-> IF d = "d1" THEN f ELSE File(<<Text("t")>>)] :
        f \in {File(<<DictX("1")>>), CorruptFile}}

\* Every single binding: both scopes, every row from -1 to the longest
\* dataset's length, and no row.
SingleBindings ==
    {DataSourceBinding(d, k, "record", <<>>) : d \in {"d1", "d2"}, k \in {"", "k", "x"}}
    \cup {DataSourceBinding(d, k, "global", r) :
            d \in {"d1", "d2"}, k \in {"", "k"},
            r \in {<<>>} \cup {<<i>> : i \in (0 - 1)..MaxRecords}}

\* Bindings that collide with each other in a list.
ListBindings ==
    {DataSourceBinding("d1", "", "record", <<>>),
     DataSourceBinding("d2", "k", "record", <<>>),
     DataSourceBinding("d1", "", "global", <<1>>),
     DataSourceBinding("d1", "x", "global", <<>>),
     DataSourceBinding("d2", "", "global", <<>>)}

BinderRequests ==
    {RunRequest(None, "val={{x}}", bindings, StructuredParser, "gpt-3.5-turbo") :
        bindings \in {<<b>> : b \in SingleBindings}
                       \cup SeqsUpTo(ListBindings, MaxBindings)}

ParserSpecs ==
    {NoParser, DefaultParserSpec, StructuredParser,
     [type |-> "structured", pydantic_model |-> "invalid", python_code |-> None],
     [type |-> "structured", pydantic_model |-> None, python_code |-> None],
     [type |-> "python", pydantic_model |-> None, python_code |-> "def parse(t)"],
     [type |-> "python", pydantic_model |-> None, python_code |-> "invalid"]}

ExecRequests ==
    {RunRequest(t[1], t[2], bindings, parser, llm) :
        t \in {<<None, "val={{x}}">>, <<None, None>>, <<None, "{{">>,
               <<"t1", None>>, <<"gone", "val={{x}}">>, <<"", "val={{x}}">>},
        bindings \in {<<>>, <<DataSourceBinding("d1", "", "record", <<>>)>>},
        parser \in ParserSpecs,
        llm \in {None, "gpt-3.5-turbo"}}

\* The records that batch_process_task passes for a request: those of its
\* driving dataset.
BatchRecordsOf(request, store) ==
    LET n == RecordScopedBinding(request.datasource_bindings)
        file == _find_dataset_file(store, request.datasource_bindings[n].source_id)
    IN  IF n = 0 \/ file = NoFile \/ LoadRaises(file) THEN {}
        ELSE {file.records[i] : i \in 1..Len(file.records)}

\* The calls of execute_llm_run for a request: run_llm's, without a record, and
\* the batch loop's, one per record.
RunCalls(request, store) ==
    {[IdleRun EXCEPT !.request = request, !.llm_ok = ok] : ok \in BOOLEAN}
    \cup {[IdleRun EXCEPT !.request = request, !.llm_ok = ok, !.solo = FALSE,
                          !.record = record] :
            ok \in BOOLEAN, record \in BatchRecordsOf(request, store)}

InitRun ==
    /\ \/ /\ datasets \in RunStores
          /\ \E request \in BinderRequests : run \in RunCalls(request, datasets)
       \/ /\ datasets \in ExecStores
          /\ \E request \in ExecRequests : run \in RunCalls(request, datasets)
    /\ templates = {}
    /\ uploads = IdleUploads
    /\ job_store = <<>>
    /\ submitted = {}
    /\ task = [j \in JobIds |-> IdleTask]
    /\ client = IdleClient
    /\ response = NoResponse
    /\ observed = [j \in JobIds |-> <<>>]
    /\ held = [j \in JobIds |-> {}]
    /\ failed_idx = [j \in JobIds |-> {}]
    /\ calls = [j \in JobIds |-> 0]

SpecRun == InitRun /\ [][RunNext]_vars

(***************************************************************************)
(* Template CRUD.  A file of TEMPLATES_DIR is its stem, split at every "__",*)
(* and its content: <<id, s1, .., sn>> is the stem id__s1__..__sn.  The     *)
(* handlers are async functions without an await: each runs as one step.    *)
(***************************************************************************)
TemplateIds == {"U", "V"}       \* ids that uuid4 hands out
NameTokens == {"a", "b"}
Contents == {"c1", "c2"}

\* Names a client sends: one to MaxNameSegments segments, or one with a slash.
SlashName == <<"a/b">>
TemplateNames == (SeqsUpTo(NameTokens, MaxNameSegments) \ {<<>>}) \cup {SlashName}

\* Values of the path parameter template_id: an id, or an id followed by "__"
\* and a segment.
PathIds == {<<u>> : u \in TemplateIds} \cup {<<u, t>> : u \in TemplateIds, t \in NameTokens}

\* TemplateUpdate.name when the body leaves it out
NoName == <<>>

TemplateFile(stem, content) == [stem |-> stem, content |-> content]

\* f.stem.split('__', 1)[1]
StemName(stem) == SubSeq(stem, 2, Len(stem))

\* f.stem.startswith(f"{template_id}__")
StemStartsWith(stem, template_id) ==
    /\ Len(template_id) < Len(stem)
    /\ SubSeq(stem, 1, Len(template_id)) = template_id

\* _find_template_file over TEMPLATES_DIR: the files it may return, iterdir
\* giving no order.
FindTemplateFiles(template_id) ==
    {f \in templates : StemStartsWith(f.stem, template_id)}

NameTaken(name) == \E f \in templates : StemName(f.stem) = name

TemplateResponse(endpoint, error) == HTTPError(endpoint, "", error)

template_vars == <<uploads, datasets, run, job_store, submitted, task, client, observed, held,
                   failed_idx, calls>>

\* Lines 111-133
create_template(template_id, name, content) ==
    /\ \A f \in templates : f.stem[1] # template_id
    /\ IF name = SlashName
       THEN /\ response' = TemplateResponse("create_template", "400")
            /\ UNCHANGED templates
       ELSE IF NameTaken(name)
       THEN /\ response' = TemplateResponse("create_template", "409")
            /\ UNCHANGED templates
       ELSE /\ templates' = templates \cup {TemplateFile(<<template_id>> \o name, content)}
            /\ response' = TemplateResponse("create_template", "")
    /\ UNCHANGED template_vars

\* Lines 290-324; name is NoName and content None when the body leaves them out.
update_template(template_id, name, content) ==
    /\ IF FindTemplateFiles(template_id) = {}
       THEN /\ response' = TemplateResponse("update_template", "404")
            /\ UNCHANGED templates
       ELSE \E file \in FindTemplateFiles(template_id) :
            LET current_name == StemName(file.stem)
                new_name == IF name # NoName THEN name ELSE current_name
                rename == name # NoName /\ name # current_name
                new_stem == IF rename THEN template_id \o name ELSE file.stem
                new_content == IF content # None THEN content ELSE file.content
            IN  IF new_name = SlashName
                THEN /\ response' = TemplateResponse("update_template", "400")
                     /\ UNCHANGED templates
                ELSE IF rename /\ NameTaken(name)
                THEN /\ response' = TemplateResponse("update_template", "409")
                     /\ UNCHANGED templates
                ELSE /\ templates' =
                            {f \in templates : f.stem \notin {file.stem, new_stem}}
                            \cup {TemplateFile(new_stem, new_content)}
                     /\ response' = TemplateResponse("update_template", "")
    /\ UNCHANGED template_vars

\* Lines 327-337
delete_template(template_id) ==
    /\ IF FindTemplateFiles(template_id) = {}
       THEN UNCHANGED templates
       ELSE \E file \in FindTemplateFiles(template_id) :
                templates' = templates \ {file}
    /\ response' = TemplateResponse("delete_template", "")
    /\ UNCHANGED template_vars

NextTemplates ==
    \/ \E template_id \in TemplateIds, name \in TemplateNames, content \in Contents :
            create_template(template_id, name, content)
    \/ \E template_id \in PathIds, name \in TemplateNames \cup {NoName},
          content \in Contents \cup {None} :
            update_template(template_id, name, content)
    \/ \E template_id \in PathIds : delete_template(template_id)

\* An empty TEMPLATES_DIR; nothing else of the server takes part.
InitTemplates ==
    /\ templates = {}
    /\ uploads = IdleUploads
    /\ datasets = [d \in {"d1", "d2"} |-> NoFile]
    /\ run = IdleRun
    /\ job_store = <<>>
    /\ submitted = {}
    /\ task = [j \in JobIds |-> IdleTask]
    /\ client = IdleClient
    /\ response = NoResponse
    /\ observed = [j \in JobIds |-> <<>>]
    /\ held = [j \in JobIds |-> {}]
    /\ failed_idx = [j \in JobIds |-> {}]
    /\ calls = [j \in JobIds |-> 0]

SpecTemplates == InitTemplates /\ [][NextTemplates]_vars

(***************************************************************************)
(* Dataset upload and delete.  create_dataset is a coroutine on the one     *)
(* event loop of the server: it runs without interruption up to its only    *)
(* await (line 191, inside the `with open(...)`), and from there to its end.*)
(* delete_dataset has no await.                                             *)
(***************************************************************************)
DatasetIds == {"u1", "u2", "u3"}     \* ids that uuid4 hands out
DatasetNames == {"a", "b", "a\\b"}   \* Path(file.filename).stem
Suffixes == {".json", ".txt", ".csv"}
UploadBody == <<DictX("1")>>         \* the records of the uploaded file

\* A file of DATASETS_DIR: "open" from open(file_path, "wb") to the write of
\* the body, "ok" after it.
DatasetFile(state, recs, dataset_name, suffix) ==
    [state |-> state, records |-> recs, name |-> dataset_name, suffix |-> suffix]

Live(dataset_id) == datasets[dataset_id].state # "missing"

\* Lines 181-183: f.stem.split('__', 1)[1] == dataset_name for some file.
DatasetNameTaken(dataset_name) ==
    \E d \in DatasetIds : Live(d) /\ datasets[d].name = dataset_name

\* uuid4: an id of no file and of no upload in progress.
FreshDatasetIds ==
    {d \in DatasetIds : ~Live(d) /\ \A p \in Uploaders : uploads[p].dataset_id # d}

upload_vars == <<templates, run, job_store, submitted, task, client, response,
                 observed, held, failed_idx, calls>>

Reject(p, status) ==
    /\ uploads' = [uploads EXCEPT ![p] = [IdleUpload EXCEPT !.result = status]]
    /\ UNCHANGED datasets

\* Lines 168-190: the checks, the id, and open(file_path, "wb"), which creates
\* the file; the coroutine then awaits the body.
DatasetOpen(p, dataset_name, suffix) ==
    /\ uploads[p].pc = "idle"
    /\ IF dataset_name = "a\\b"
       THEN Reject(p, "400")
       ELSE IF suffix \notin {".json", ".jsonl", ".txt"}
       THEN Reject(p, "400")
       ELSE IF DatasetNameTaken(dataset_name)
       THEN Reject(p, "409")
       ELSE \E dataset_id \in FreshDatasetIds :
            /\ datasets' = [datasets EXCEPT ![dataset_id] =
                               DatasetFile("open", <<>>, dataset_name, suffix)]
            /\ uploads' = [uploads EXCEPT ![p] =
                             [pc |-> "reading", dataset_id |-> dataset_id,
                              dataset_name |-> dataset_name, suffix |-> suffix,
                              result |-> ""]]
    /\ UNCHANGED upload_vars

\* Lines 191-195: the body is written through the open handle and the file
\* closed; a file unlinked in between stays unlinked.
DatasetWrite(p) ==
    /\ uploads[p].pc = "reading"
    /\ LET dataset_id == uploads[p].dataset_id
       IN  datasets' = IF datasets[dataset_id].state = "open"
                       THEN [datasets EXCEPT ![dataset_id].state = "ok",
                                             ![dataset_id].records = UploadBody]
                       ELSE datasets
    /\ uploads' = [uploads EXCEPT ![p] = [IdleUpload EXCEPT !.result = "200"]]
    /\ UNCHANGED upload_vars

\* Mutant of create_dataset: `body = await file.read()` before the open, so
\* that the file is created after the await.
create_dataset_ReadBeforeOpen(p) ==
    /\ \/ /\ uploads[p].pc = "idle"
          /\ \E dataset_name \in DatasetNames \ {"a\\b"} :
                IF DatasetNameTaken(dataset_name)
                THEN Reject(p, "409")
                ELSE \E dataset_id \in FreshDatasetIds :
                     /\ uploads' = [uploads EXCEPT ![p] =
                                      [pc |-> "reading", dataset_id |-> dataset_id,
                                       dataset_name |-> dataset_name,
                                       suffix |-> ".json", result |-> ""]]
                     /\ UNCHANGED datasets
       \/ /\ uploads[p].pc = "reading"
          /\ datasets' = [datasets EXCEPT ![uploads[p].dataset_id] =
                            DatasetFile("ok", UploadBody, uploads[p].dataset_name,
                                        uploads[p].suffix)]
          /\ uploads' = [uploads EXCEPT ![p] = [IdleUpload EXCEPT !.result = "200"]]
    /\ UNCHANGED upload_vars

\* Lines 165-195
create_dataset(p) ==
    \/ \E dataset_name \in DatasetNames, suffix \in Suffixes :
            DatasetOpen(p, dataset_name, suffix)
    \/ DatasetWrite(p)

\* delete_dataset: unlink the file of the id, if there is one.
delete_dataset(dataset_id) ==
    /\ _find_dataset_file(datasets, dataset_id) # NoFile
    /\ datasets' = [datasets EXCEPT ![dataset_id] = NoFile]
    /\ UNCHANGED <<uploads, upload_vars>>

NextDatasets ==
    \/ \E p \in Uploaders : create_dataset(p)
    \/ \E dataset_id \in DatasetIds : delete_dataset(dataset_id)

\* An empty DATASETS_DIR; nothing else of the server takes part.
InitDatasets ==
    /\ datasets = [d \in DatasetIds |-> NoFile]
    /\ uploads = IdleUploads
    /\ templates = {}
    /\ run = IdleRun
    /\ job_store = <<>>
    /\ submitted = {}
    /\ task = [j \in JobIds |-> IdleTask]
    /\ client = IdleClient
    /\ response = NoResponse
    /\ observed = [j \in JobIds |-> <<>>]
    /\ held = [j \in JobIds |-> {}]
    /\ failed_idx = [j \in JobIds |-> {}]
    /\ calls = [j \in JobIds |-> 0]

SpecDatasets == InitDatasets /\ [][NextDatasets]_vars

(***************************************************************************)
(* Properties                                                              *)
(***************************************************************************)
Terminal == {"completed", "failed"}

\* The response is a JobStatus body.
StatusBody == response.endpoint = "status" /\ response.error = ""

\* The driving dataset as the contract defines it: the dataset of the binding
\* with the least index among those of scope record.
DrivingBinding(bindings) ==
    LET S == {n \in 1..Len(bindings) : bindings[n].scope = "record"}
    IN  IF S = {} THEN 0 ELSE CHOOSE n \in S : \A m \in S : n <= m

DrivingFile(request) ==
    LET n == DrivingBinding(request.datasource_bindings)
    IN  IF n = 0 THEN NoFile ELSE datasets[request.datasource_bindings[n].source_id]

\* C1: a job's status only moves running -> completed or running -> failed and
\* never changes once it is completed or failed; a job is created running and
\* never removed; a client that saw a terminal status sees it in every later poll.
JobStatusTerminalOnce ==
    /\ [][/\ DOMAIN job_store \subseteq DOMAIN job_store'
          /\ \A j \in DOMAIN job_store' \ DOMAIN job_store :
                job_store'[j].status = "running"
          /\ \A j \in DOMAIN job_store :
                \/ job_store'[j].status = job_store[j].status
                \/ /\ job_store[j].status = "running"
                   /\ job_store'[j].status \in Terminal]_vars
    /\ [](StatusBody /\ observed[response.job_id] # <<>>
            /\ observed[response.job_id][1] \in Terminal
          => response.status = observed[response.job_id][1])

\* C1 witness: the job is completed and a client that had seen it running now
\* receives the terminal status.
JobStatusTerminalOnceWitness ==
    /\ StatusBody
    /\ response.status = "completed"
    /\ observed[response.job_id] # <<>>
    /\ observed[response.job_id][1] = "running"

\* C2: when the driving dataset loads, the job never fails; every entry carries
\* an error exactly if the executor failed on its record and a normal result
\* (raw_response and parsed_response, no error) otherwise; and the finished job
\* is completed with one entry per record.
PerRecordFailuresCaptured ==
    \A j \in DOMAIN job_store :
        LET job == job_store[j]
            file == DrivingFile(task[j].request)
        IN  file.state = "ok" =>
              /\ job.status # "failed"
              /\ \A i \in 1..Len(job.results) :
                    IF (i - 1) \in failed_idx[j]
                    THEN /\ job.results[i].error # Absent
                         /\ job.results[i].raw_response = NoValue
                         /\ job.results[i].parsed_response = NoValue
                    ELSE /\ job.results[i].error = Absent
                         /\ job.results[i].raw_response # NoValue
                         /\ job.results[i].parsed_response # NoValue
              /\ task[j].pc = "done" =>
                    /\ job.status = "completed"
                    /\ Len(job.results) = Len(file.records)

\* C2 witness: a finished batch in which the executor failed on the first
\* record and succeeded on the second.
PerRecordFailuresCapturedWitness ==
    \E j \in DOMAIN job_store :
        /\ task[j].pc = "done"
        /\ job_store[j].status = "completed"
        /\ failed_idx[j] = {0}
        /\ Len(job_store[j].results) = 2

\* C3 (as claimed): a job that run_batch has returned is in the registry, and a
\* status query for it never answers JobNotFound.
SubmittedJobIsRegistered ==
    /\ \A j \in submitted : j \in DOMAIN job_store
    /\ (response.endpoint = "status" /\ response.error = "JobNotFound")
          => response.job_id \notin submitted

\* C4: the progress of a job never decreases, and no JobStatus a client
\* receives shows less progress than the one it received before.
ProgressMonotonic ==
    /\ [][\A j \in DOMAIN job_store :
            j \in DOMAIN job_store' /\ job_store'[j].progress >= job_store[j].progress]_vars
    /\ [](StatusBody /\ observed[response.job_id] # <<>>
          => response.progress >= observed[response.job_id][2])

\* C4 witness: a client receives more progress than in its previous poll.
ProgressMonotonicWitness ==
    /\ StatusBody
    /\ observed[response.job_id] # <<>>
    /\ response.progress > observed[response.job_id][2]
    /\ observed[response.job_id][2] > 0

\* C5 (as claimed): progress == total exactly if status == completed.
ProgressIsTotalIffCompleted ==
    \A j \in DOMAIN job_store :
        (job_store[j].progress = job_store[j].total)
            <=> (job_store[j].status = "completed")

\* C5 (amended): status == completed implies progress == total, in the job and
\* in every JobStatus returned.
CompletedImpliesProgressIsTotal ==
    /\ \A j \in DOMAIN job_store :
          job_store[j].status = "completed" =>
              job_store[j].progress = job_store[j].total
    /\ StatusBody /\ response.status = "completed" => response.progress = response.total

\* C5 witness: a JobStatus of a completed job over two records.
CompletedImpliesProgressIsTotalWitness ==
    /\ StatusBody
    /\ response.status = "completed"
    /\ response.total = 2

\* C6 (as claimed): once entries are appended, results.length == progress.
ResultsLengthIsProgress ==
    \A j \in DOMAIN job_store :
        Len(job_store[j].results) > 0 =>
            Len(job_store[j].results) = job_store[j].progress

\* C6 (amended): results.length is progress or progress + 1, and it is
\* progress + 1 exactly between the append of an entry and the update of
\* progress that follows it.
ResultsLengthWithinOneOfProgress ==
    \A j \in DOMAIN job_store :
        LET job == job_store[j]
        IN  IF task[j].pc = "progress"
            THEN Len(job.results) = job.progress + 1
            ELSE Len(job.results) = job.progress

\* C6 witness: the second entry is appended and progress is still 1.
ResultsLengthWithinOneOfProgressWitness ==
    \E j \in DOMAIN job_store :
        /\ Len(job_store[j].results) = 2
        /\ job_store[j].progress = 1

\* C7 (as claimed): every JobStatus returned is a combination of fields the job
\* held at one instant, never failed without an error and never running with one.
StatusIsConsistentSnapshot ==
    StatusBody =>
        /\ [status |-> response.status, progress |-> response.progress,
            total |-> response.total, error |-> response.job_error]
              \in held[response.job_id]
        /\ ~(response.status = "failed" /\ response.job_error = None)
        /\ ~(response.status = "running" /\ response.job_error # None)

\* C8: a query never changes the job store; a query for an id that is not in
\* the registry answers JobNotFound; a result query for a job that is running
\* or failed answers JobNotComplete; results are returned only for a completed
\* job, and they are the job's results.
QueriesAnswerByRegistry ==
    [][client' # client =>
        /\ job_store' = job_store
        /\ client.pc = "idle" =>
              IF client'.job_id \notin DOMAIN job_store
              THEN client'.pc = "respond" /\ response'.error = "JobNotFound"
              ELSE IF client'.endpoint = "status"
              THEN client'.pc = "progress" /\ response' = response
              ELSE IF job_store[client'.job_id].status # "completed"
              THEN client'.pc = "respond" /\ response'.error = "JobNotComplete"
              ELSE client'.pc = "results" /\ response' = response
        /\ client.pc = "results" =>
              /\ response'.error = ""
              /\ job_store[client.job_id].status = "completed"
              /\ response'.results = job_store[client.job_id].results]_vars

\* C8 witness: a result query for a failed job was answered JobNotComplete.
QueriesAnswerByRegistryWitness ==
    /\ response.endpoint = "result"
    /\ response.error = "JobNotComplete"
    /\ job_store[response.job_id].status = "failed"

\* C9 (as claimed): with no record-scoped binding or a driving dataset that is
\* not found, the executor is never invoked and the finished job is failed with
\* a non-empty error; and a job is failed for one of these two reasons only.
FailedOnlyWithoutDrivingDataset ==
    \A j \in DOMAIN job_store :
        LET job == job_store[j]
            file == DrivingFile(task[j].request)
        IN  /\ file.state = "missing" =>
                /\ calls[j] = 0
                /\ task[j].pc = "done" =>
                      job.status = "failed" /\ job.error \notin {None, ""}
            /\ job.status = "failed" => file.state = "missing"

\* C9 (amended): the same with a third setup failure, a driving dataset whose
\* file cannot be read or parsed.
FailedOnlyBySetup ==
    \A j \in DOMAIN job_store :
        LET job == job_store[j]
            file == DrivingFile(task[j].request)
        IN  /\ file.state \in {"missing", "corrupt"} =>
                /\ calls[j] = 0
                /\ task[j].pc = "done" =>
                      job.status = "failed" /\ job.error \notin {None, ""}
            /\ job.status = "failed" => file.state \in {"missing", "corrupt"}

\* C9 witness: a job failed on a driving dataset that exists and cannot be parsed.
FailedOnlyBySetupWitness ==
    \E j \in DOMAIN job_store :
        /\ task[j].pc = "done"
        /\ job_store[j].status = "failed"
        /\ DrivingFile(task[j].request).state = "corrupt"

\* C10: once setup is done total is the record count of the dataset of the
\* first record-scoped binding, and in every state entry i of results holds
\* record i of that dataset; the finished job holds one entry per record.
ResultsFollowDrivingDataset ==
    \A j \in DOMAIN job_store :
        LET job == job_store[j]
            file == DrivingFile(task[j].request)
        IN  /\ Len(job.results) > 0 => file.state = "ok"
            /\ Len(job.results) <= Len(file.records)
            /\ \A i \in 1..Len(job.results) :
                  job.results[i].input_record = file.records[i]
            /\ (file.state = "ok" /\ task[j].pc # "setup") =>
                  job.total = Len(file.records)
            /\ job.status = "completed" => Len(job.results) = Len(file.records)

\* C10 witness: a completed batch with two record-scoped bindings on different
\* datasets, the first of which holds two different records.
ResultsFollowDrivingDatasetWitness ==
    \E j \in DOMAIN job_store :
        LET bindings == task[j].request.datasource_bindings
        IN  /\ job_store[j].status = "completed"
            /\ Len(bindings) = 2
            /\ bindings[1].scope = "record" /\ bindings[2].scope = "record"
            /\ bindings[1].source_id # bindings[2].source_id
            /\ Len(job_store[j].results) = 2
            /\ job_store[j].results[1].input_record # job_store[j].results[2].input_record

(***************************************************************************)
(* Properties of one run                                                   *)
(***************************************************************************)
ParserOf(request) ==
    IF request.parser = NoParser THEN DefaultParserSpec ELSE request.parser

Finished == run.pc \in {"returned", "failed", "done"}

\* C11: with the raw parser and a model call that succeeds, the run returns a
\* result whose parsed_response is its raw_response, the model's output for the
\* rendered prompt, and no error.
RawParserIsIdentity ==
    (/\ Finished
     /\ ParserOf(run.request).type = "raw"
     /\ run.llm_called /\ run.llm_ok) =>
        /\ run.out.exc = ""
        /\ run.out.parsed_response = run.out.raw_response

\* C12: a solo run answers with a RunResponse, which carries the failure in
\* its error field when a step failed.
SoloRunAlwaysReturnsResult ==
    (run.solo /\ run.pc = "done") =>
        /\ run.http.kind = "RunResponse"
        /\ run.out.exc # "" => run.http.error # None

\* Whether a binding that resolved to value writes key k of the context, and
\* what it writes there.
Splices(binding, value) == binding.context_key = "" /\ value[1] = "dict"

Writes(binding, value, k) ==
    IF Splices(binding, value)
    THEN k \in Keys /\ value[2][k] # Absent
    ELSE k = binding.context_key

Written(binding, value, k) ==
    IF Splices(binding, value) THEN <<"val", value[2][k]>> ELSE <<"rec", value>>

\* The left-to-right fold of the claim in closed form: every key holds what the
\* last binding that writes it wrote.
LastWriterWins(bindings, values, n) ==
    [k \in CtxKeys |->
        LET W == {i \in 1..n : Writes(bindings[i], values[i], k)}
        IN  IF W = {} THEN Undefined
            ELSE LET last == CHOOSE i \in W : \A m \in W : m <= i
                 IN  Written(bindings[last], values[last], k)]

\* C13: the context is the left-to-right fold over the bindings resolved so
\* far: an empty context_key with a mapping splices the mapping's keys, any
\* other binding nests its value under context_key, the later binding wins.
ContextIsLeftToRightFold ==
    run.context = LastWriterWins(run.request.datasource_bindings, run.resolved,
                                 Len(run.resolved))

\* C13 witness: a run past its bindings in which a spliced key replaced a key
\* nested by an earlier binding, or the other way round.
ContextIsLeftToRightFoldWitness ==
    /\ run.pc = "returned"
    /\ Len(run.resolved) = 2
    /\ \E k \in CtxKeys :
        LET bindings == run.request.datasource_bindings
        IN  /\ Writes(bindings[1], run.resolved[1], k)
            /\ Writes(bindings[2], run.resolved[2], k)
            /\ Splices(bindings[1], run.resolved[1]) # Splices(bindings[2], run.resolved[2])
            /\ run.context[k] = Written(bindings[2], run.resolved[2], k)

\* A record-scoped binding whose dataset exists and holds no record.
EmptyRecordBinding(binding) ==
    /\ binding.scope = "record"
    /\ _find_dataset_file(datasets, binding.source_id) = File(<<>>)

\* C14: in a solo run a record-scoped binding on an empty dataset does not fail
\* and leaves the context as the bindings before it built it, wherever it stands.
EmptyDatasetContributesNothing ==
    (/\ run.solo
     /\ run.n >= 1
     /\ EmptyRecordBinding(run.request.datasource_bindings[run.n])) =>
        /\ Len(run.resolved) = run.n
        /\ run.context = run.before

\* C15: given a current record, a record-scoped binding that resolves resolves
\* to that record, whatever the record is.
RecordBindingUsesCurrentRecord ==
    (/\ ~run.solo
     /\ run.n >= 1
     /\ run.request.datasource_bindings[run.n].scope = "record"
     /\ Len(run.resolved) = run.n) =>
        run.resolved[run.n] = run.record

\* The binding the run attempted last, and the file of its dataset.
LastBinding == run.request.datasource_bindings[run.n]
LastFile == _find_dataset_file(datasets, LastBinding.source_id)

RowInRange(binding, file) ==
    0 <= RowOrZero(binding) /\ RowOrZero(binding) < Len(file.records)

\* C16: in a call of the batch loop a global binding that resolves resolves to
\* record `row` (0 when absent) of its own dataset, whatever the current record.
GlobalBindingIsFixedRow ==
    (/\ ~run.solo
     /\ run.n >= 1
     /\ LastBinding.scope = "global"
     /\ Len(run.resolved) = run.n) =>
        /\ LastFile.state = "ok"
        /\ RowInRange(LastBinding, LastFile)
        /\ run.resolved[run.n] = LastFile.records[RowOrZero(LastBinding) + 1]

\* C16 witness: a call of the batch loop that returned, whose global binding
\* names row 1 and resolved to a record other than the current one.
GlobalBindingIsFixedRowWitness ==
    /\ ~run.solo
    /\ run.pc = "returned"
    /\ run.n >= 1
    /\ LastBinding.scope = "global"
    /\ LastBinding.row = <<1>>
    /\ run.resolved[run.n] # run.record

\* C17: a global binding on a readable dataset whose row is outside
\* [0, len(dataset)) fails the run with the invalid-row-index error before
\* anything is rendered or the model is called; a row inside never gives that
\* error.
InvalidRowIndexIffOutOfRange ==
    (/\ run.n >= 1
     /\ LastBinding.scope = "global"
     /\ LastFile.state = "ok") =>
        IF RowInRange(LastBinding, LastFile)
        THEN /\ run.out.msg # "Invalid row index"
             /\ Len(run.resolved) = run.n
        ELSE /\ run.pc \in {"failed", "done"}
             /\ run.out.exc = "ValueError"
             /\ run.out.msg = "Invalid row index"
             /\ Len(run.resolved) = run.n - 1
             /\ ~run.llm_called

\* C17 witness: a finished solo run that failed on a negative row, one on a row
\* equal to the record count of a dataset that holds records.
InvalidRowIndexIffOutOfRangeWitness ==
    /\ run.pc = "done"
    /\ run.solo
    /\ run.n >= 1
    /\ LastBinding.scope = "global"
    /\ LastFile.state = "ok"
    /\ Len(LastFile.records) > 0
    /\ RowOrZero(LastBinding) < 0
    /\ run.http.error = "Invalid row index"

JobTerminal(j) == j \in DOMAIN job_store /\ job_store[j].status \in Terminal

\* C18: every submitted job eventually has status completed or failed, and as
\* long as it has not, a step of its task is enabled.
SubmittedJobsTerminate ==
    \A j \in JobIds :
        /\ (j \in submitted) ~> JobTerminal(j)
        /\ []((j \in submitted /\ ~JobTerminal(j)) => ENABLED batch_process_task(j))

\* C18 witness: a job that failed in its setup, and so reached its terminal
\* status through the handler of the task.
SubmittedJobsTerminateWitness ==
    \E j \in submitted :
        /\ JobTerminal(j)
        /\ job_store[j].status = "failed"
        /\ task[j].pc = "done"

(***************************************************************************)
(* Properties of the template store                                        *)
(***************************************************************************)
\* C19: no two live templates have the same name.
TemplateNamesUnique ==
    \A f, g \in templates : StemName(f.stem) = StemName(g.stem) => f = g

(***************************************************************************)
(* Properties of a completed job                                           *)
(***************************************************************************)
\* C20: a completed job has progress = total = the number of its results and
\* no error, and nothing of the job changes once it is completed.
CompletedJobIsFinal ==
    /\ [](\A j \in DOMAIN job_store :
            job_store[j].status = "completed" =>
                /\ job_store[j].progress = job_store[j].total
                /\ job_store[j].total = Len(job_store[j].results)
                /\ job_store[j].error = None)
    /\ [][\A j \in DOMAIN job_store :
            job_store[j].status = "completed" => job_store'[j] = job_store[j]]_vars

\* C20 witness: a job completed over MaxRecords records, one of which failed,
\* that a client has seen completed.
CompletedJobIsFinalWitness ==
    \E j \in DOMAIN job_store :
        /\ job_store[j].status = "completed"
        /\ job_store[j].progress = MaxRecords
        /\ failed_idx[j] # {}
        /\ observed[j] = <<"completed", MaxRecords>>

(***************************************************************************)
(* Properties of a failed job                                              *)
(***************************************************************************)
\* C21: a failed job holds no results and has progress 0; a job fails before
\* its first record only.
FailedJobHoldsNoResults ==
    \A j \in DOMAIN job_store :
        job_store[j].status = "failed" =>
            /\ job_store[j].results = <<>>
            /\ job_store[j].progress = 0
            /\ calls[j] = 0

\* C21 witness: a job that failed although its request names a dataset with
\* records (the request has no record-scoped binding), seen failed by a client.
FailedJobHoldsNoResultsWitness ==
    \E j \in DOMAIN job_store :
        /\ job_store[j].status = "failed"
        /\ job_store[j].error # None
        /\ Len(task[j].request.datasource_bindings) > 0
        /\ RecordScopedBinding(task[j].request.datasource_bindings) = 0
        /\ Len(datasets["d1"].records) > 0
        /\ observed[j] = <<"failed", 0>>

(***************************************************************************)
(* Properties of the dataset store                                         *)
(***************************************************************************)
\* C22: no two live datasets have the same name, whatever the interleaving of
\* uploads and deletes.
DatasetNamesUnique ==
    \A d, e \in DatasetIds :
        (Live(d) /\ Live(e) /\ datasets[d].name = datasets[e].name) => d = e

\* C22 witness: an upload is refused for the name of a file that another
\* upload has created and not yet written.
DatasetNamesUniqueWitness ==
    \E p, q \in Uploaders :
        /\ uploads[p].pc = "reading"
        /\ datasets[uploads[p].dataset_id].state = "open"
        /\ uploads[q].result = "409"
        /\ \A d \in DatasetIds : Live(d) => d = uploads[p].dataset_id

====
